---- MODULE Spec2Model ----
(***************************************************************************)
(* Rockbox theme rescaler (rockbox_theme_rescaler.py).                     *)
(*                                                                         *)
(* A Python str is a sequence of one-character strings, a path is a        *)
(* sequence of path components (each a str), a float factor is the exact   *)
(* ratio <<num, den>> it was computed from, and None is the value None.    *)
(***************************************************************************)
EXTENDS Integers, Sequences, FiniteSets, TLC

VARIABLES
    call,               \* the arguments of a direct call of one function
    ret,                \* what that call returned, [done |-> FALSE] before it
    args,               \* main: the parsed command line
    fsys,               \* main: the bitmaps of the input tree and what the image tools report
    files,              \* main: list(input_dir.rglob("*")), in walk order
    idx,                \* main: how many entries of files the loop has consumed
    already_processed,  \* main: the list of bitmaps the tag path resized
    log,                \* the image-tool commands issued so far, in order
    written,            \* main: the output files written by rewrite or copy
    pc                  \* main: "loop", "done", or "raised" (uncaught exception)

vars == <<call, ret, args, fsys, files, idx, already_processed, log, written, pc>>

----------------------------------------------------------------------------
(* Python built-ins used by the program *)

None == -1

DigitChars == <<"0", "1", "2", "3", "4", "5", "6", "7", "8", "9">>

IsDigitChar(c) == \E i \in 1..Len(DigitChars) : DigitChars[i] = c

DigitVal(c) == (CHOOSE i \in 1..Len(DigitChars) : DigitChars[i] = c) - 1

IsSpaceChar(c) == c \in {" ", "\t", "\n"}

RECURSIVE lstrip(_)
lstrip(s) == IF s # <<>> /\ IsSpaceChar(s[1]) THEN lstrip(Tail(s)) ELSE s

RECURSIVE rstrip(_)
rstrip(s) ==
    IF s # <<>> /\ IsSpaceChar(s[Len(s)]) THEN rstrip(SubSeq(s, 1, Len(s) - 1)) ELSE s

\* str.strip()
strip(s) == rstrip(lstrip(s))

\* str.endswith(c) for a one-character suffix
endswith(s, c) == s # <<>> /\ s[Len(s)] = c

\* str.isdigit()
isdigit(s) == s # <<>> /\ \A i \in 1..Len(s) : IsDigitChar(s[i])

RECURSIVE DigitsValue(_)
DigitsValue(s) ==
    IF s = <<>> THEN 0 ELSE 10 * DigitsValue(SubSeq(s, 1, Len(s) - 1)) + DigitVal(s[Len(s)])

\* the digits of an int literal after its optional sign
IntBody(s) ==
    LET t == strip(s) IN IF t # <<>> /\ t[1] \in {"-", "+"} THEN Tail(t) ELSE t

\* int(s) does not raise ValueError
int_parses(s) == isdigit(IntBody(s))

\* int(s), for a str that parses
int_of(s) ==
    LET t == strip(s) IN
    IF t[1] = "-" THEN 0 - DigitsValue(IntBody(s)) ELSE DigitsValue(IntBody(s))

RECURSIVE NatStr(_)
NatStr(n) ==
    IF n < 10 THEN <<DigitChars[n + 1]>> ELSE NatStr(n \div 10) \o <<DigitChars[(n % 10) + 1]>>

\* str(n) for an int
str_of(n) == IF n < 0 THEN <<"-">> \o NatStr(0 - n) ELSE NatStr(n)

\* int(n * f) for an int n and the float f = num/den: truncation toward zero
int_mul_floor(n, f) == (n * f[1]) \div f[2]

int_mul(n, f) ==
    LET p == n * f[1] IN
    IF p >= 0 THEN p \div f[2] ELSE 0 - ((0 - p) \div f[2])

----------------------------------------------------------------------------
(* scale_value *)

scale_value(val, factor) ==
    LET v == strip(val) IN
    IF v = <<"-">> \/ endswith(v, "%") THEN v
    ELSE IF int_parses(v) THEN str_of(int_mul(int_of(v), factor))
    ELSE v

----------------------------------------------------------------------------
(* pathlib: a path is the sequence of its components *)

RECURSIVE LastIndexOf(_, _, _)
LastIndexOf(s, c, i) ==
    IF i = 0 THEN 0 ELSE IF s[i] = c THEN i ELSE LastIndexOf(s, c, i - 1)

path_name(p) == p[Len(p)]

\* Path.suffix: from the last "." of the name, unless the name starts with it
path_suffix(p) ==
    LET n == path_name(p)
        k == LastIndexOf(n, ".", Len(n))
    IN IF k > 1 THEN SubSeq(n, k, Len(n)) ELSE <<>>

\* Path.stem
path_stem(p) ==
    LET n == path_name(p)
        k == LastIndexOf(n, ".", Len(n))
    IN IF k > 1 THEN SubSeq(n, 1, k - 1) ELSE n

\* Path.parent
path_parent(p) == SubSeq(p, 1, Len(p) - 1)

\* p / name, for a name without separators
path_join(p, n) == IF n = <<>> \/ n = <<".">> THEN p ELSE Append(p, n)

LowerChar(c) ==
    CASE c = "B" -> "b"
      [] c = "M" -> "m"
      [] c = "P" -> "p"
      [] c = "W" -> "w"
      [] c = "S" -> "s"
      [] c = "F" -> "f"
      [] OTHER -> c

\* str.lower()
lower(s) == [i \in 1..Len(s) |-> LowerChar(s[i])]

----------------------------------------------------------------------------
(* The image tools: identify (ImageMagick) and PIL, reading the input tree *)

IsImage(p) == p \in DOMAIN fsys.images

get_bit_depth(file_path) == IF IsImage(file_path) THEN fsys.images[file_path].depth ELSE None

get_width(file_path) == IF IsImage(file_path) THEN fsys.images[file_path].width ELSE None

get_image_height(image_path) ==
    IF IsImage(image_path) THEN fsys.images[image_path].height ELSE None

----------------------------------------------------------------------------
(* resize_bmp.  The result is the record of one invocation: the arguments,   *)
(* the shell commands issued in order, and the exception that ended it.      *)
(* site names the call site and is no argument of the Python function.       *)

HardFactor == <<<<3, 2>>, <<3, 2>>>>

IconWidth == 32

Percent == 100

ResizeCmd(input_path, output_path, filter, factor) ==
    [cmd |-> "resize", src |-> input_path, dst |-> output_path, filter |-> filter,
     pct |-> int_mul(Percent, factor[1])]

QuantizeCmds(output_path) ==
    << [cmd |-> "quantize", src |-> output_path, dst |-> <<"/tmp", path_name(output_path)>>],
       [cmd |-> "mv", src |-> <<"/tmp", path_name(output_path)>>, dst |-> output_path] >>

Invocation(site, input_path, output_path, factor, cmds, raised) ==
    [site |-> site, input_path |-> input_path, output_path |-> output_path,
     factor |-> factor, cmds |-> cmds, raised |-> raised]

resize_bmp_no_icon_filter(site, input_path, output_path, factor, filter_bg, filter_icon) ==
    LET width == get_width(input_path)
        bit_depth == get_bit_depth(input_path)
        mkdir == <<[cmd |-> "mkdir", dst |-> path_parent(output_path)]>>
    IN IF width = None
       THEN Invocation(site, input_path, output_path, factor, mkdir, "TypeError:56")
       ELSE Invocation(site, input_path, output_path, factor,
                mkdir \o <<ResizeCmd(input_path, output_path, filter_bg, HardFactor)>>
                      \o (IF bit_depth # 1 THEN <<>> ELSE QuantizeCmds(output_path)),
                "none")

resize_bmp(site, input_path, output_path, factor, filter_bg, filter_icon) ==
    LET factor1 == HardFactor
        width == get_width(input_path)
        bit_depth == get_bit_depth(input_path)
        mkdir == <<[cmd |-> "mkdir", dst |-> path_parent(output_path)]>>
    IN IF bit_depth # 1
       THEN IF width = None  \* None <= 32 raises TypeError
            THEN Invocation(site, input_path, output_path, factor, mkdir, "TypeError:56")
            ELSE IF width <= IconWidth
            THEN Invocation(site, input_path, output_path, factor,
                     mkdir \o <<ResizeCmd(input_path, output_path, "Point", factor1)>>, "none")
            ELSE Invocation(site, input_path, output_path, factor,
                     mkdir \o <<ResizeCmd(input_path, output_path, filter_bg, factor1)>>, "none")
       ELSE IF width = None
            THEN Invocation(site, input_path, output_path, factor, mkdir, "TypeError:61")
            ELSE IF width <= IconWidth
            THEN Invocation(site, input_path, output_path, factor,
                     mkdir \o <<ResizeCmd(input_path, output_path, "Point", factor1)>>
                           \o QuantizeCmds(output_path), "none")
            ELSE Invocation(site, input_path, output_path, factor,
                     mkdir \o <<ResizeCmd(input_path, output_path, filter_bg, factor1)>>
                           \o QuantizeCmds(output_path), "none")

----------------------------------------------------------------------------
(* rescale_wps_file: the tag table *)

patterns ==
    << [key |-> <<"%", "V">>,      params |-> <<"x", "y", "width", "height", "fontid">>],
       [key |-> <<"%", "V", "l">>, params |-> <<"id", "x", "y", "width", "height", "fontid">>],
       [key |-> <<"%", "V", "i">>, params |-> <<"label", "x", "y", "width", "height", "fontid">>],
       [key |-> <<"%", "d", "r">>, params |-> <<"x", "y", "width", "height", "colour1", "colour2">>],
       [key |-> <<"%", "p", "b">>, params |-> <<"x", "y", "width", "height", "filename">>],
       [key |-> <<"%", "p", "v">>, params |-> <<"x", "y", "width", "height", "filename">>],
       [key |-> <<"%", "x">>,      params |-> <<"label", "filename", "x", "y">>],
       [key |-> <<"%", "x", "l">>, params |-> <<"label", "filename", "x", "y", "nimages">>],
       [key |-> <<"%", "C", "l">>,
        params |-> <<"xpos", "ypos", "maxwidth", "maxheight", "halign", "valign">>],
       [key |-> <<"%", "T">>,
        params |-> <<"label", "x", "y", "width", "height", "action", "options">>],
       [key |-> <<"%", "L", "b">>, params |-> <<"viewport", "width", "height", "tile">>],
       [key |-> <<"%", "X", "X">>,
        params |-> <<"x", "y", "width", "height", "filename", "options">>] >>

\* the names line 118 scales
ScaledNames == {"x", "y", "width", "height", "xpos", "ypos", "maxwidth", "maxheight"}

\* the characters of a parameter name
NameChars ==
    [x |-> <<"x">>, y |-> <<"y">>,
     width |-> <<"w", "i", "d", "t", "h">>,
     height |-> <<"h", "e", "i", "g", "h", "t">>,
     xpos |-> <<"x", "p", "o", "s">>, ypos |-> <<"y", "p", "o", "s">>,
     maxwidth |-> <<"m", "a", "x", "w", "i", "d", "t", "h">>,
     maxheight |-> <<"m", "a", "x", "h", "e", "i", "g", "h", "t">>]

\* c in name
char_in(c, name) == \E i \in 1..Len(NameChars[name]) : NameChars[name][i] = c

\* line 119
axis_factor(name, factor_x, factor_y) ==
    IF char_in("x", name) THEN factor_x ELSE factor_y

----------------------------------------------------------------------------
(* str.split and str.join *)

RECURSIVE IndexOf(_, _, _)
\* the least index >= i of s holding a character of cs, or 0
IndexOf(s, cs, i) ==
    IF i > Len(s) THEN 0 ELSE IF s[i] \in cs THEN i ELSE IndexOf(s, cs, i + 1)

RECURSIVE split(_, _)
split(s, c) ==
    LET k == IndexOf(s, {c}, 1) IN
    IF k = 0 THEN <<s>>
    ELSE <<SubSeq(s, 1, k - 1)>> \o split(SubSeq(s, k + 1, Len(s)), c)

RECURSIVE join(_, _)
join(parts, c) ==
    IF Len(parts) = 0 THEN <<>>
    ELSE IF Len(parts) = 1 THEN parts[1]
    ELSE parts[1] \o <<c>> \o join(Tail(parts), c)

----------------------------------------------------------------------------
(* rescale_wps_file: repl.  st carries what the closure mutates: the        *)
(* output text built so far, processed_bmps, the resize_bmp invocations and  *)
(* the exception that is propagating.  env is the arguments of               *)
(* rescale_wps_file.                                                         *)

\* lines 121-136, the nimages branch for parts[i] of one occurrence
nimages_branch(env, st, parts, i) ==
    LET image_filename == parts[2]
        image_path == path_join(Append(path_parent(env.file_path), path_stem(env.file_path)),
                                image_filename)
        output_path == path_join(Append(path_parent(env.out_path), path_stem(env.out_path)),
                                 image_filename)
        original_height == get_image_height(image_path)
        scaled_height == int_mul(original_height, env.factor_y)
        nimages == IF isdigit(parts[i]) THEN int_of(parts[i]) ELSE 1
        factor_new == IF scaled_height % nimages # 0
                      THEN <<(scaled_height \div nimages) * nimages, original_height>>
                      ELSE env.factor_x
        inv == resize_bmp("repl", image_path, output_path, <<factor_new, factor_new>>,
                          env.FILTER_BG, env.FILTER_ICON)
    IN IF original_height = None  \* None * factor_y raises TypeError
       THEN [st EXCEPT !.raised = "TypeError:126"]
       ELSE IF nimages = 0  \* scaled_height % 0 raises ZeroDivisionError
       THEN [st EXCEPT !.raised = "ZeroDivisionError:130"]
       ELSE IF inv.raised # "none"
       THEN [st EXCEPT !.log = Append(@, inv), !.raised = inv.raised]
       ELSE [st EXCEPT !.log = Append(@, inv),
                       !.processed_bmps = Append(@, image_path)]

\* the token count of line 118
XlFullCount == 5

RECURSIVE repl_loop(_, _, _, _)
\* lines 116-136: the loop over the defined parameters, from the i-th on;
\* st.parts is the token list
repl_loop(env, pat, st, i) ==
    IF st.raised # "none" \/ i > Len(pat.params) THEN st
    ELSE IF i > Len(st.parts) THEN repl_loop(env, pat, st, i + 1)
    ELSE LET name == pat.params[i] IN
         IF name \in ScaledNames /\ ~(pat.key = <<"%", "x", "l">> /\ Len(st.parts) = XlFullCount)
         THEN repl_loop(env, pat,
                  [st EXCEPT !.parts[i] =
                       scale_value(@, axis_factor(name, env.factor_x, env.factor_y))],
                  i + 1)
         ELSE IF name = "nimages"
         THEN repl_loop(env, pat, nimages_branch(env, st, st.parts, i), i + 1)
         ELSE repl_loop(env, pat, st, i + 1)

\* lines 114-138: the replacement of one match whose group(1) is group
repl(env, pat, group, st) ==
    LET raw == split(group, ",")
        parts == [k \in 1..Len(raw) |-> strip(raw[k])]
        after == repl_loop(env, pat, [st EXCEPT !.parts = parts], 1)
    IN IF after.raised # "none" THEN after
       ELSE [after EXCEPT
                !.out = @ \o pat.key \o <<"(">> \o join(after.parts, ",") \o <<")">>]

\* where the match of key\((.*?)\) that starts at i ends, or 0 for no match
\* there: "." matches no newline
match_end(text, key, i) ==
    LET open == i + Len(key) IN
    IF text[i] = key[1] /\ open <= Len(text) /\ SubSeq(text, i, open - 1) = key
                        /\ text[open] = "("
    THEN LET j == IndexOf(text, {")", "\n"}, open + 1) IN
         IF j # 0 /\ text[j] = ")" THEN j ELSE 0
    ELSE 0

RECURSIVE next_match(_, _, _)
\* the least index >= i at which a match starts, or 0
next_match(text, key, i) ==
    IF i > Len(text) THEN 0
    ELSE IF match_end(text, key, i) # 0 THEN i
    ELSE next_match(text, key, i + 1)

RECURSIVE regex_sub(_, _, _, _, _)
\* line 139, regex.sub(repl, text), scanning text from index i on: the text
\* between matches is copied, each match is replaced by repl's result
regex_sub(env, pat, text, st, i) ==
    IF st.raised # "none" THEN st
    ELSE LET m == next_match(text, pat.key, i) IN
         IF m = 0 THEN [st EXCEPT !.out = @ \o SubSeq(text, i, Len(text))]
         ELSE LET j == match_end(text, pat.key, m) IN
              regex_sub(env, pat, text,
                  repl(env, pat, SubSeq(text, m + Len(pat.key) + 1, j - 1),
                       [st EXCEPT !.out = @ \o SubSeq(text, i, m - 1)]),
                  j + 1)

RECURSIVE patterns_loop(_, _, _)
\* lines 112-139: st.out is the text the k-th pattern reads
patterns_loop(env, st, k) ==
    IF st.raised # "none" \/ k > Len(patterns) THEN st
    ELSE patterns_loop(env,
             regex_sub(env, patterns[k], st.out, [st EXCEPT !.out = <<>>], 1), k + 1)

\* the bytes no UTF-8 text holds alone, and what latin-1 reads them as
Latin1Only == {"0xE9"}

decode(bytes) ==
    IF \A i \in 1..Len(bytes) : bytes[i] \notin Latin1Only
    THEN bytes
    ELSE [i \in 1..Len(bytes) |-> IF bytes[i] = "0xE9" THEN "U+00E9" ELSE bytes[i]]

\* rescale_wps_file: [raised, out (the text written when nothing raised),
\* processed_bmps, log (the resize_bmp invocations made)]
rescale_wps_file(file_path, out_path, factor_x, factor_y, FILTER_BG, FILTER_ICON) ==
    LET env == [file_path |-> file_path, out_path |-> out_path,
                factor_x |-> factor_x, factor_y |-> factor_y,
                FILTER_BG |-> FILTER_BG, FILTER_ICON |-> FILTER_ICON]
        text == decode(fsys.texts[file_path])
        st0 == [raised |-> "none", out |-> text, parts |-> <<>>,
                processed_bmps |-> <<>>, log |-> <<>>]
    IN patterns_loop(env, st0, 1)

----------------------------------------------------------------------------
(* Direct calls of scale_value on every short token *)

MaxValLen == 3

ValChars == {"0", "1", "7", "-", "+", "%", " ", "a"}

RECURSIVE StrsUpTo(_, _)
StrsUpTo(chars, n) ==
    IF n = 0 THEN {<<>>}
    ELSE LET shorter == StrsUpTo(chars, n - 1) IN
         shorter \cup {Append(s, c) : s \in shorter, c \in chars}

Factors == {<<3, 2>>, <<2, 3>>, <<1, 1>>, <<147, 100>>}

NoCall == [fn |-> "none"]

NotDone == [done |-> FALSE]

MainIdle ==
    /\ args = [input_res |-> "240p", output_res |-> "240p", filter |-> "LANCZOS"]
    /\ fsys = [images |-> <<>>, texts |-> <<>>]
    /\ files = <<>>
    /\ idx = 0
    /\ already_processed = <<>>
    /\ written = <<>>
    /\ pc = "idle"

mainVars == <<args, fsys, files, idx, already_processed, written, pc>>

InitScale ==
    /\ \E v \in StrsUpTo(ValChars, MaxValLen), f \in Factors :
           call = [fn |-> "scale_value", val |-> v, factor |-> f]
    /\ ret = NotDone
    /\ log = <<>>
    /\ MainIdle

CallScaleValue ==
    /\ call.fn = "scale_value"
    /\ ret = NotDone
    /\ ret' = [done |-> TRUE, value |-> scale_value(call.val, call.factor)]
    /\ UNCHANGED <<call, log, mainVars>>

NextScale == CallScaleValue

SpecScale == InitScale /\ [][NextScale]_vars

----------------------------------------------------------------------------
(* main *)

Resolutions == {"240p", "360p"}

res_map(r) == IF r = "240p" THEN <<320, 240>> ELSE <<480, 360>>

ResChars(r) == IF r = "240p" THEN <<"2", "4", "0", "p">> ELSE <<"3", "6", "0", "p">>

input_dir == << <<"T">> >>

output_dir == Append(path_parent(input_dir),
                     path_name(input_dir) \o <<"_">> \o ResChars(args.output_res))

factor_x == <<res_map(args.output_res)[1], res_map(args.input_res)[1]>>

factor_y == <<res_map(args.output_res)[2], res_map(args.input_res)[2]>>

FILTER_BG == IF args.filter = "NEAREST" THEN "Point" ELSE "Lanczos"

FILTER_ICON == "Point"

\* file.relative_to(input_dir)
relative_to(p, dir) == SubSeq(p, Len(dir) + 1, Len(p))

out_file_of(p) == output_dir \o relative_to(p, input_dir)

BmpSuffix == <<".", "b", "m", "p">>

ThemeSuffixes == {<<".", "w", "p", "s">>, <<".", "s", "b", "s">>, <<".", "f", "m", "s">>}

\* the entry the loop of line 175 is at
file == files[idx + 1].path

InLoop == pc = "loop" /\ idx < Len(files)

in_list(x, l) == \E k \in 1..Len(l) : l[k] = x

\* lines 176-178
SkipDirectory ==
    /\ InLoop
    /\ ~files[idx + 1].is_file
    /\ idx' = idx + 1
    /\ UNCHANGED <<call, ret, args, fsys, files, already_processed, log, written, pc>>

not_already_processed_unchecked(f) == TRUE

\* line 187
not_already_processed(f) == ~in_list(f, already_processed)

\* lines 186-188
DispatchBmp ==
    /\ InLoop
    /\ files[idx + 1].is_file
    /\ lower(path_suffix(file)) = BmpSuffix
    /\ IF not_already_processed(file)
       THEN LET inv == resize_bmp("main", file, out_file_of(file), <<factor_x, factor_y>>,
                                  FILTER_BG, FILTER_ICON)
            IN /\ log' = Append(log, inv)
               /\ IF inv.raised # "none"
                  THEN pc' = "raised" /\ idx' = idx
                  ELSE pc' = pc /\ idx' = idx + 1
       ELSE /\ idx' = idx + 1
            /\ UNCHANGED <<log, pc>>
    /\ UNCHANGED <<call, ret, args, fsys, files, already_processed, written>>

\* lines 190-193
DispatchTheme ==
    /\ InLoop
    /\ files[idx + 1].is_file
    /\ lower(path_suffix(file)) # BmpSuffix
    /\ lower(path_suffix(file)) \in ThemeSuffixes
    /\ LET r == rescale_wps_file(file, out_file_of(file), factor_x, factor_y,
                                 FILTER_BG, FILTER_ICON)
       IN /\ log' = log \o r.log
          /\ IF r.raised # "none"
             THEN /\ pc' = "raised"
                  /\ UNCHANGED <<idx, already_processed, written>>
             ELSE /\ written' = Append(written,
                         [path |-> out_file_of(file), by |-> "write_text", content |-> r.out])
                  /\ already_processed' = already_processed \o r.processed_bmps
                  /\ idx' = idx + 1
                  /\ pc' = pc
    /\ UNCHANGED <<call, ret, args, fsys, files>>

\* lines 195-197
CopyOther ==
    /\ InLoop
    /\ files[idx + 1].is_file
    /\ lower(path_suffix(file)) # BmpSuffix
    /\ lower(path_suffix(file)) \notin ThemeSuffixes
    /\ written' = Append(written, [path |-> out_file_of(file), by |-> "copy2", content |-> file])
    /\ idx' = idx + 1
    /\ UNCHANGED <<call, ret, args, fsys, files, already_processed, log, pc>>

\* the loop of line 175 is exhausted
Finish ==
    /\ pc = "loop"
    /\ idx = Len(files)
    /\ pc' = "done"
    /\ UNCHANGED <<call, ret, args, fsys, files, idx, already_processed, log, written>>

(* The input trees *)

Chars_t_wps == <<"t", ".", "w", "p", "s">>

Chars_t_sbs == <<"t", ".", "S", "B", "S">>

Chars_a_bmp == <<"a", ".", "b", "m", "p">>

Chars_n_txt == <<"n", ".", "t", "x", "t">>

ThemeDir == Append(input_dir, <<"t">>)

ThemeFile == Append(input_dir, Chars_t_wps)

ThemeFile2 == Append(input_dir, Chars_t_sbs)

Bitmap == Append(ThemeDir, Chars_a_bmp)

OtherFile == Append(input_dir, Chars_n_txt)

Entry(p, f) == [path |-> p, is_file |-> f]

Trees ==
    { {Entry(ThemeDir, FALSE), Entry(ThemeFile, TRUE), Entry(Bitmap, TRUE), Entry(OtherFile, TRUE)},
      {Entry(ThemeDir, FALSE), Entry(ThemeFile, TRUE), Entry(Bitmap, TRUE), Entry(ThemeFile2, TRUE)} }

\* every order in which the walk can enumerate a tree
Orders(tree) ==
    {f \in [1..Cardinality(tree) -> tree] : \A e \in tree : \E k \in DOMAIN f : f[k] = e}

Tag(key, tokens) == key \o <<"(">> \o join(tokens, ",") \o <<")">>

Xl == <<"%", "x", "l">>

TextStrip7 == Tag(Xl, << <<"A">>, Chars_a_bmp, <<"0">>, <<"0">>, <<"7">> >>)

TextTwoTags == TextStrip7 \o <<"\n">> \o Tag(Xl, << <<"B">>, Chars_a_bmp, <<"9">>, <<"9">>, <<"7">> >>)

TextStrip0 == Tag(Xl, << <<"A">>, Chars_a_bmp, <<"0">>, <<"0">>, <<"0">> >>)

TextProgressBar ==
    Tag(<<"%", "p", "b">>,
        << <<"1", "0">>, <<"2", "0">>, <<"1", "0", "0">>, <<"5", "0">>, Chars_a_bmp >>)

TextLatin1 == <<"0xE9">> \o Tag(<<"%", "x">>, << <<"A">>, Chars_a_bmp, <<"1">>, <<"7">> >>)

ThemeTexts == {TextStrip7, TextTwoTags, TextStrip0, TextProgressBar, TextLatin1}

Image(w, d, h) == [width |-> w, depth |-> d, height |-> h]

ImageAttrs ==
    {Image(24, 1, 100), Image(24, 8, 100), Image(40, 1, 100), Image(40, 8, 100),
     Image(None, 8, 100), Image(40, None, 100), Image(40, 8, None)}

Init ==
    /\ call = NoCall
    /\ ret = NotDone
    /\ args \in [input_res : Resolutions, output_res : Resolutions,
                 filter : {"NEAREST", "LANCZOS"}]
    /\ \E tree \in Trees, text \in ThemeTexts, attrs \in ImageAttrs :
           /\ files \in Orders(tree)
           /\ fsys = [images |-> (Bitmap :> attrs),
                      texts |-> [p \in {ThemeFile, ThemeFile2} |->
                                    IF p = ThemeFile THEN text ELSE TextStrip7]]
    /\ idx = 0
    /\ already_processed = <<>>
    /\ log = <<>>
    /\ written = <<>>
    /\ pc = "loop"

Next ==
    \/ SkipDirectory
    \/ DispatchBmp
    \/ DispatchTheme
    \/ CopyOther
    \/ Finish

Spec == Init /\ [][Next]_vars

----------------------------------------------------------------------------
(* Direct calls of rescale_wps_file on one theme file *)

Chars_10 == <<"1", "0">>

Chars_20 == <<"2", "0">>

TokenLists ==
    { << <<"A">>, Chars_a_bmp, Chars_10, Chars_20, <<"7">>, <<"5", "0", "%">>, <<"z">> >>,
      << <<"A">>, Chars_a_bmp, <<" ", "7">>, <<"-">>, <<"0">>, <<"-", "7">> >>,
      << Chars_10, Chars_20, <<"3", "0">>, <<"4", "0">>, <<"-">>, <<" ", "q">>, <<"7">> >>,
      << <<"A">>, <<"m", ".", "b", "m", "p">>, <<"7">>, <<"7">>, <<"q">> >> }

Prefixes(l) == {SubSeq(l, 1, n) : n \in 0..Len(l)}

TextNested == <<"%", "V", "(">> \o Tag(<<"%", "x">>, << <<"A">>, Chars_a_bmp, Chars_10, Chars_20 >>)

RewriteTexts ==
    {Tag(patterns[k].key, toks) :
         k \in 1..Len(patterns), toks \in UNION {Prefixes(l) : l \in TokenLists}}
    \cup {TextNested, TextTwoTags, <<"%", "x", "d", "(", "A", ")">>}

FactorPairs ==
    {<<<<3, 2>>, <<3, 2>>>>, <<<<3, 2>>, <<1, 1>>>>, <<<<1, 1>>, <<3, 2>>>>, <<<<2, 3>>, <<2, 3>>>>}

RewriteImages == {Image(40, 8, 100), Image(24, 1, 0), Image(40, 8, None)}

OutThemeFile == << <<"O">>, Chars_t_wps >>

InitRewrite ==
    /\ \E fp \in FactorPairs :
           call = [fn |-> "rescale_wps_file", file_path |-> ThemeFile,
                   out_path |-> OutThemeFile, factor_x |-> fp[1], factor_y |-> fp[2],
                   FILTER_BG |-> "Lanczos", FILTER_ICON |-> "Point"]
    /\ ret = NotDone
    /\ \E text \in RewriteTexts, attrs \in RewriteImages :
           fsys = [images |-> (Bitmap :> attrs), texts |-> (ThemeFile :> text)]
    /\ args = [input_res |-> "240p", output_res |-> "240p", filter |-> "LANCZOS"]
    /\ files = <<>>
    /\ idx = 0
    /\ already_processed = <<>>
    /\ written = <<>>
    /\ log = <<>>
    /\ pc = "idle"

CallRescaleWpsFile ==
    /\ call.fn = "rescale_wps_file"
    /\ ret = NotDone
    /\ LET r == rescale_wps_file(call.file_path, call.out_path, call.factor_x, call.factor_y,
                                 call.FILTER_BG, call.FILTER_ICON)
       IN /\ ret' = [done |-> TRUE, raised |-> r.raised, out |-> r.out,
                     processed_bmps |-> r.processed_bmps]
          /\ log' = r.log
          /\ written' = IF r.raised = "none"
                        THEN <<[path |-> call.out_path, by |-> "write_text", content |-> r.out]>>
                        ELSE <<>>
    /\ UNCHANGED <<call, args, fsys, files, idx, already_processed, pc>>

NextRewrite == CallRescaleWpsFile

SpecRewrite == InitRewrite /\ [][NextRewrite]_vars

----------------------------------------------------------------------------
(* C7 *)

\* the reference of section 4.1: truncation toward zero of n * num/den is the
\* integer r of the sign of the product with |r| <= |n * num/den| < |r| + 1
IsTruncation(r, n, f) ==
    LET p == n * f[1]
        absp == IF p < 0 THEN 0 - p ELSE p
        absr == IF r < 0 THEN 0 - r ELSE r
    IN /\ f[2] * absr <= absp
       /\ absp < f[2] * (absr + 1)
       /\ (r > 0 => p > 0)
       /\ (r < 0 => p < 0)

\* canonical decimal text: optional "-", digits, no leading zero, no "-0"
IsDecimalText(s) ==
    LET body == IF s # <<>> /\ s[1] = "-" THEN Tail(s) ELSE s IN
    /\ isdigit(body)
    /\ (Len(body) > 1 => body[1] # "0")
    /\ (s[1] = "-" => body # <<"0">>)

IsIntegerToken(v) ==
    \E sign \in {<<>>, <<"-">>, <<"+">>} :
        \E n \in 1..Len(v) :
            /\ Len(v) = Len(sign) + n
            /\ SubSeq(v, 1, Len(sign)) = sign
            /\ \A i \in (Len(sign) + 1)..Len(v) : IsDigitChar(v[i])

TokenValue(v) ==
    LET neg == v[1] = "-"
        body == IF v[1] \in {"-", "+"} THEN Tail(v) ELSE v
        mag == DigitsValue(body)
    IN IF neg THEN 0 - mag ELSE mag

\* C7: scale_value returns a sentinel ("-", "...%") or a token that is no
\* integer unchanged (trimmed), and an integer token n as the decimal text of
\* n * factor truncated toward zero; scale("10", 1.5) = "15", scale("7", 1.5) = "10".
C7_ScaleValueMatchesReference ==
    (call.fn = "scale_value" /\ ret.done) =>
        LET v == strip(call.val) IN
        /\ (v = <<"-">> \/ endswith(v, "%") \/ ~IsIntegerToken(v)) => ret.value = v
        /\ (v # <<"-">> /\ ~endswith(v, "%") /\ IsIntegerToken(v)) =>
               /\ IsDecimalText(ret.value)
               /\ IsTruncation(TokenValue(ret.value), TokenValue(v), call.factor)
        /\ (call.val = <<"1", "0">> /\ call.factor = <<3, 2>>) => ret.value = <<"1", "5">>
        /\ (call.val = <<"7">> /\ call.factor = <<3, 2>>) => ret.value = <<"1", "0">>
        /\ (call.val = <<"-", "7">> /\ call.factor = <<3, 2>>) => ret.value = <<"-", "1", "0">>

C7_Witness ==
    /\ call.fn = "scale_value"
    /\ ret.done
    /\ call.val = <<"-", "7">>
    /\ call.factor = <<3, 2>>
    /\ ret.value = <<"-", "1", "0">>

----------------------------------------------------------------------------
(* The recognised tag occurrences of a text, in text order *)

PatternAt(text, i) ==
    {k \in 1..Len(patterns) : match_end(text, patterns[k].key, i) # 0}

OccurrenceAt(text, i) ==
    LET k == CHOOSE k \in PatternAt(text, i) : TRUE
        j == match_end(text, patterns[k].key, i)
        raw == split(SubSeq(text, i + Len(patterns[k].key) + 1, j - 1), ",")
    IN [key |-> patterns[k].key, params |-> patterns[k].params,
        tokens |-> [n \in 1..Len(raw) |-> strip(raw[n])], first |-> i, last |-> j]

RECURSIVE OccurrencesFrom(_, _)
OccurrencesFrom(text, i) ==
    IF i > Len(text) THEN <<>>
    ELSE (IF PatternAt(text, i) # {} THEN <<OccurrenceAt(text, i)>> ELSE <<>>)
             \o OccurrencesFrom(text, i + 1)

Occurrences(text) == OccurrencesFrom(text, 1)

\* an occurrence starts inside the argument list of another
HasNested(text) ==
    LET occ == Occurrences(text) IN
    \E a, b \in 1..Len(occ) : occ[a].first < occ[b].first /\ occ[b].first < occ[a].last

RewriteReturned == call.fn = "rescale_wps_file" /\ ret.done /\ ret.raised = "none"

InputText == decode(fsys.texts[call.file_path])

\* the defined parameters an occurrence has a token for
Present(o) == {i \in 1..Len(o.params) : i <= Len(o.tokens)}

IsFullXl(o) == o.key = Xl /\ Len(o.tokens) >= Len(o.params)

----------------------------------------------------------------------------
(* C1 *)

Invocations == {log[k] : k \in 1..Len(log)}

Resamples(inv) == {k \in 1..Len(inv.cmds) : inv.cmds[k].cmd = "resize"}

\* pct is the factor f as a percentage, truncated as int(f * 100) is
IsPercentOf(pct, f) == f[2] * pct <= Percent * f[1] /\ Percent * f[1] < f[2] * (pct + 1)

\* C1: every resample resize_bmp issues uses the factor its caller requested
\* (the global factor for a standalone bitmap, the frame-adjusted factor for a
\* sprite strip); height 100, factor_y 1.5, nimages 7 resamples at 147%.
C1_ResampleUsesRequestedFactor ==
    \A inv \in Invocations : \A k \in Resamples(inv) :
        /\ IsPercentOf(inv.cmds[k].pct, inv.factor[1])
        /\ (inv.site = "main" => inv.factor = <<factor_x, factor_y>>)
        /\ (/\ inv.site = "repl"
            /\ fsys.images[Bitmap].height = 100
            /\ factor_y = <<360, 240>>
            /\ fsys.texts[ThemeFile] = TextStrip7)
           => inv.cmds[k].pct = 147

----------------------------------------------------------------------------
(* C2 *)

ResizesOf(path) ==
    {k \in 1..Len(log) : log[k].input_path = path /\ Resamples(log[k]) # {}}

\* C2: in any run each input asset path is resized at most once, whatever the
\* walk order and however many tags reference the bitmap.
C2_AssetResizedAtMostOnce ==
    \A inv \in Invocations : Cardinality(ResizesOf(inv.input_path)) <= 1

----------------------------------------------------------------------------
(* C3 *)

RunEnded == pc \in {"done", "raised"}

\* the entry whose processing raised, or 0
FailedEntry == IF pc = "raised" THEN idx + 1 ELSE 0

\* C3: a failure while processing one file is confined to that file: when the
\* run has ended, every other entry of the walk has been processed.
C3_FailureConfinedToFile ==
    RunEnded => \A k \in 1..Len(files) : k # FailedEntry => k <= idx

----------------------------------------------------------------------------
(* C4 *)

\* C4: the frame-alignment computation is total: for every frame-count token
\* and every asset height it yields a factor and raises nothing.
C4_FrameAlignmentTotal ==
    (call.fn = "rescale_wps_file" /\ ret.done) =>
        ret.raised \notin {"TypeError:126", "ZeroDivisionError:130"}

----------------------------------------------------------------------------
(* C5 *)

HorizontalNames == {"x", "xpos", "width", "maxwidth"}

VerticalNames == {"y", "ypos", "height", "maxheight"}

\* C5: each spatial parameter is scaled by the factor of its own axis: x, xpos,
\* width, maxwidth by factor_x and y, ypos, height, maxheight by factor_y, for
\* every tag and every factor pair.
C5_SpatialScaledByOwnAxis ==
    (RewriteReturned /\ ~HasNested(InputText)) =>
        LET inp == Occurrences(InputText)
            out == Occurrences(ret.out)
        IN \A k \in 1..Len(inp) : ~IsFullXl(inp[k]) =>
               \A i \in Present(inp[k]) :
                   /\ inp[k].params[i] \in HorizontalNames =>
                          out[k].tokens[i] = scale_value(inp[k].tokens[i], call.factor_x)
                   /\ inp[k].params[i] \in VerticalNames =>
                          out[k].tokens[i] = scale_value(inp[k].tokens[i], call.factor_y)

----------------------------------------------------------------------------
(* C6 *)

\* token i of the rewritten occurrence is the input token, or the input token
\* of a spatial parameter scaled once
TokenKept(inp, out, i) ==
    \/ out.tokens[i] = inp.tokens[i]
    \/ /\ i <= Len(inp.params)
       /\ inp.params[i] \in HorizontalNames \cup VerticalNames
       /\ out.tokens[i] \in {scale_value(inp.tokens[i], call.factor_x),
                             scale_value(inp.tokens[i], call.factor_y)}

\* C6: rewriting preserves every recognised occurrence's keyword, argument
\* count and argument order; only spatial values change, and each occurrence is
\* rewritten by exactly one tag definition.
C6_StructurePreserved ==
    RewriteReturned =>
        LET inp == Occurrences(InputText)
            out == Occurrences(ret.out)
        IN /\ Len(out) = Len(inp)
           /\ \A k \in 1..Len(inp) :
                  /\ out[k].key = inp[k].key
                  /\ Len(out[k].tokens) = Len(inp[k].tokens)
                  /\ \A i \in 1..Len(inp[k].tokens) : TokenKept(inp[k], out[k], i)

----------------------------------------------------------------------------
(* C9 *)

ImagePathOf(o) ==
    path_join(Append(path_parent(call.file_path), path_stem(call.file_path)), o.tokens[2])

\* C9: a %xl occurrence holding label, filename, x, y, nimages (extra tokens or
\* not) keeps x, y and nimages as they are while its asset is resized; a %xl
\* occurrence without nimages, and every other tag, has its spatial parameters
\* scaled.
C9_XlFullSetUnscaled ==
    (RewriteReturned /\ ~HasNested(InputText)) =>
        LET inp == Occurrences(InputText)
            out == Occurrences(ret.out)
        IN \A k \in 1..Len(inp) :
               IF IsFullXl(inp[k])
               THEN /\ \A i \in Present(inp[k]) : out[k].tokens[i] = inp[k].tokens[i]
                    /\ \E inv \in Invocations : inv.input_path = ImagePathOf(inp[k])
               ELSE \A i \in Present(inp[k]) :
                        inp[k].params[i] \in HorizontalNames \cup VerticalNames =>
                            out[k].tokens[i] \in
                                {scale_value(inp[k].tokens[i], call.factor_x),
                                 scale_value(inp[k].tokens[i], call.factor_y)}

----------------------------------------------------------------------------
(* C8 *)

Quantizations(inv) == {k \in 1..Len(inv.cmds) : inv.cmds[k].cmd = "quantize"}

\* C8: resize_bmp issues exactly one resample, nearest-neighbour ("Point") when
\* the width is at most 32 and with the caller's filter otherwise, whatever the
\* bit-depth, then a 1-bit quantization of the resampled output if and only if
\* the bit-depth is 1, never before the resample.
C8_FilterAndQuantization ==
    \A inv \in Invocations :
        inv.raised = "none" =>
            LET image == fsys.images[inv.input_path] IN
            /\ Cardinality(Resamples(inv)) = 1
            /\ \A k \in Resamples(inv) :
                   /\ inv.cmds[k].filter = IF image.width <= 32 THEN "Point" ELSE FILTER_BG
                   /\ inv.cmds[k].src = inv.input_path
                   /\ inv.cmds[k].dst = inv.output_path
            /\ Cardinality(Quantizations(inv)) = IF image.depth = 1 THEN 1 ELSE 0
            /\ \A q \in Quantizations(inv) :
                   /\ inv.cmds[q].src = inv.output_path
                   /\ \A k \in Resamples(inv) : k < q

C8_Witness ==
    \E inv \in Invocations :
        /\ inv.raised = "none"
        /\ fsys.images[inv.input_path].width = 24
        /\ fsys.images[inv.input_path].depth = 1
        /\ FILTER_BG = "Lanczos"
        /\ Quantizations(inv) # {}
        /\ \E k \in Resamples(inv) : inv.cmds[k].filter = "Point"

----------------------------------------------------------------------------
(* C10 *)

\* the last invocation that resampled to output path p
LastResizeTo(p) ==
    LET ks == {k \in 1..Len(log) : log[k].output_path = p /\ Resamples(log[k]) # {}}
    IN log[CHOOSE k \in ks : \A m \in ks : m <= k]

\* C10: after a run that completes without error, the last resize written to
\* the output path of a bitmap that a frame-count tag references was issued by
\* the tag path, whichever of the theme file and the bitmap the walk
\* enumerated first.
C10_TagPathResizeIsLast ==
    pc = "done" =>
        \A inv \in Invocations :
            inv.site = "repl" => LastResizeTo(inv.output_path).site = "repl"

EntryIndex(p) == CHOOSE k \in 1..Len(files) : files[k].path = p

C10_Witness ==
    /\ pc = "done"
    /\ \E inv \in Invocations : inv.site = "repl" /\ inv.input_path = Bitmap
    /\ \A inv \in Invocations : inv.site # "main"
    /\ EntryIndex(ThemeFile) < EntryIndex(Bitmap)

====
